---------------------------- MODULE Spec2Model ----------------------------
(***************************************************************************)
(* Transaction graph and entity resolution tools of crewai_trio_am.        *)
(*                                                                         *)
(* The tools of src/src/tools/wallet_graph.py rebuild a networkx DiGraph   *)
(* from mock_chain/tx.csv on every call and answer one query on it; the    *)
(* tools of src/src/tools/xref_tool.py re-read entities/xref_wallets.csv   *)
(* on every call.  The state of the model is the content of the two files  *)
(* and the last tool call with the value it returned.  A traversal can     *)
(* also be followed one loop iteration at a time.                          *)
(*                                                                         *)
(* update_claim_status of src/src/tools/claims_repo.py reads               *)
(* claims/claims.csv, changes one status, writes the file back and logs    *)
(* the change to the claims_audit table; its state is the file, the table  *)
(* and the position of each caller in the function.                        *)
(*                                                                         *)
(* Amounts, fees and confidences are floats in the code.  The model keeps  *)
(* them as integers (minor units, hundredths), so float rounding is not    *)
(* modelled.                                                               *)
(***************************************************************************)
EXTENDS Integers, Sequences, FiniteSets, TLC

VARIABLES
    txFileExists,   \* TX_FILE.exists()
    txRows,         \* the rows of mock_chain/tx.csv, in file order
    xrefFileExists, \* XREF_FILE.exists()
    xrefRows,       \* the rows of entities/xref_wallets.csv, in file order
    call,           \* the last tool call on the current files: its name and arguments
    result,         \* what that call returned
    claimsFileExists, \* CLAIMS_FILE.exists()
    claimsRows,     \* the rows of claims/claims.csv, in file order
    claimsAudit,    \* the rows of the claims_audit table of audit.db, in order of id
    updates         \* per caller: where its update_claim_status call stands

vars == <<txFileExists, txRows, xrefFileExists, xrefRows, call, result,
          claimsFileExists, claimsRows, claimsAudit, updates>>

toolVars == <<txFileExists, txRows, xrefFileExists, xrefRows, call, result>>

claimsVars == <<claimsFileExists, claimsRows, claimsAudit, updates>>

---------------------------------------------------------------------------
(* Bounds and input sets *)

MaxRecords == 3
MaxDepth == 2

Wallets == {"A", "B", "C"}

\* (asset, amount, fee) of a well-formed transfer row: the traversal claims do not
\* depend on them, and RawPayloads varies them
TxPayloads == {<<"BTC", 5, 1>>}

Depths == 0..MaxDepth

\* rows as the file may hold them: a negative amount, a negative fee, a bad timestamp
MaxRawRecords == 2

RawPayloads == TxPayloads \cup {<<"ETH", 2, 2>>, <<"BTC", -1, 1>>, <<"BTC", 1, -1>>}

ParsableTimestamps == {"2022-11-08T10:00:00Z"}

Timestamps == ParsableTimestamps \cup {"not-a-date"}

\* rows whose asset, amount and fee vary
MaxPayRecords == 3

PayPayloads == TxPayloads \cup {<<"ETH", 2, 2>>}

\* rows of the cross-reference file
MaxMappings == 3

XrefWallets == {"0xabc", "0xdef"}

\* entity names are strings; the model keeps them as sequences of characters
EntityNames == {<<"A", "X">>, <<"A", "H">>}

ExpectedNames == {<<"a", "x">>, <<"A">>, <<"A", "X", "S">>, <<"B">>}

EntityTypes == {"exchange_hot_wallet"}

\* confidence in hundredths
Confidences == {60, 90, 95}

Sources == {"kyc", "heuristic"}

\* rows whose confidence sits on and around the tier thresholds, and outside [0, 1]
MaxTierMappings == 2

TierConfidences == {-5, 0, 39, 40, 59, 60, 79, 80, 89, 90, 100, 150}

\* rows and ranges for search_by_confidence: confidences on and next to the bucket
\* limits 0.5 and 0.8, ranges that begin and end on them
MaxSearchRows == 3

SearchConfidences == {48, 50, 78, 80}

SearchLimits == {0, 50, 80, 100}

\* rows for get_source_analysis: three sources, in the order groupby lists them
MaxSourceRows == 3

SortedSources == <<"heuristic", "kyc", "osint">>

SourceConfidences == {50, 62, 96}

\* files whose header may lack a column the tools read
MaxFailRecords == 1

MaxFailMappings == 1

\* a ledger over four wallets, where two shortest paths can share their ends
MaxTieRecords == 4

TieWallets == Wallets \cup {"D"}

\* traversals followed one loop iteration at a time, with max_depth from -1 up to
\* more than the longest shortest path among three wallets
MaxTraceRecords == 2

MaxTraceDepth == 3

TraceDepths == -1..MaxTraceDepth

\* the claims file and the callers of update_claim_status
MaxAuditRows == 2

Procs == {1, 2}

ClaimIds == {"CLM-1", "CLM-2"}

InitialClaimFiles ==
    {<<[claim_id |-> "CLM-1", status |-> "open"]>>,
     <<[claim_id |-> "CLM-1", status |-> "open"],
       [claim_id |-> "CLM-2", status |-> "open"]>>}

NewStatuses == {"reconciled", "disputed"}

NoCall == [op |-> "none"]
NoResult == [kind |-> "none"]

---------------------------------------------------------------------------
(* Small helpers on sequences *)

Range(s) == {s[i] : i \in 1..Len(s)}

Contains(s, x) == \E i \in 1..Len(s) : s[i] = x

\* a dict insert that keeps the position of a key already present
AppendNew(s, x) == IF Contains(s, x) THEN s ELSE Append(s, x)

---------------------------------------------------------------------------
(* networkx.DiGraph as the tools use it: the node set, the successor and   *)
(* predecessor dicts (keys in insertion order) and one attribute dict per  *)
(* ordered pair (u, v).                                                    *)

EmptyGraph ==
    [nodes |-> {},
     succ  |-> [w \in TieWallets |-> <<>>],
     pred  |-> [w \in TieWallets |-> <<>>],
     data  |-> <<>>]

\* the attributes of a pair already present are overwritten by the new row
add_edge(g, u, v, attrs) ==
    [nodes |-> g.nodes \cup {u, v},
     succ  |-> [g.succ EXCEPT ![u] = AppendNew(@, v)],
     pred  |-> [g.pred EXCEPT ![v] = AppendNew(@, u)],
     data  |-> (<<u, v>> :> attrs) @@ g.data]

\* float(row["amount"]) on a numeric cell: the value is kept, whatever its sign
float(x) == x

EdgeAttrs(row) ==
    [asset     |-> row.asset,
     amount    |-> float(row.amount),
     fee       |-> float(row.fee),
     tx_hash   |-> row.tx_hash,
     timestamp |-> row.timestamp,
     notes     |-> row.notes]

RECURSIVE AddRows(_, _, _)
AddRows(g, rows, i) ==
    IF i > Len(rows) THEN g
    ELSE AddRows(add_edge(g, rows[i].from, rows[i].to, EdgeAttrs(rows[i])), rows, i + 1)

_build_transaction_graph(exists, rows) ==
    IF ~exists THEN EmptyGraph ELSE AddRows(EmptyGraph, rows, 1)

HasEdge(g, u, v) == <<u, v>> \in DOMAIN g.data

\* the guard `wallet not in g.nodes()` of every tool
NotInGraph_SendersOnly(g, w) == g.succ[w] = <<>>

NotInGraph_Never(g, w) == FALSE

NotInGraph(g, w) == w \notin g.nodes

---------------------------------------------------------------------------
(* nx.shortest_path(g, source, target) with no weight: networkx runs a     *)
(* bidirectional breadth-first search.  pred and succ are the two search   *)
(* trees (node -> parent, None at the roots); the side with the smaller    *)
(* fringe is expanded one whole level at a time, and the search returns at *)
(* the first node found in both trees.                                     *)

None == "None"

\* one level of the forward search: for v in this_level: for w in Gsucc[v]
RECURSIVE ForwardScan(_, _, _, _, _)
ForwardScan(g, s, level, i, j) ==
    IF i > Len(level) THEN s
    ELSE LET v  == level[i]
             nb == g.succ[v]
         IN  IF j > Len(nb) THEN ForwardScan(g, s, level, i + 1, 1)
             ELSE LET w  == nb[j]
                      s1 == IF w \notin DOMAIN s.pred
                            THEN [s EXCEPT !.fringe = Append(@, w),
                                           !.pred = (w :> v) @@ @]
                            ELSE s
                  IN  IF w \in DOMAIN s1.succ
                      THEN [s1 EXCEPT !.meet = w]
                      ELSE ForwardScan(g, s1, level, i, j + 1)

\* one level of the reverse search: for v in this_level: for w in Gpred[v]
RECURSIVE ReverseScan(_, _, _, _, _)
ReverseScan(g, s, level, i, j) ==
    IF i > Len(level) THEN s
    ELSE LET v  == level[i]
             nb == g.pred[v]
         IN  IF j > Len(nb) THEN ReverseScan(g, s, level, i + 1, 1)
             ELSE LET w  == nb[j]
                      s1 == IF w \notin DOMAIN s.succ
                            THEN [s EXCEPT !.fringe = Append(@, w),
                                           !.succ = (w :> v) @@ @]
                            ELSE s
                  IN  IF w \in DOMAIN s1.pred
                      THEN [s1 EXCEPT !.meet = w]
                      ELSE ReverseScan(g, s1, level, i, j + 1)

\* while forward_fringe and reverse_fringe: ...; raise NetworkXNoPath
RECURSIVE BidirLoop(_, _, _, _, _)
BidirLoop(g, pred, succ, forward_fringe, reverse_fringe) ==
    IF forward_fringe = <<>> \/ reverse_fringe = <<>>
    THEN [found |-> FALSE]
    ELSE IF Len(forward_fringe) <= Len(reverse_fringe)
         THEN LET s == ForwardScan(g, [pred |-> pred, succ |-> succ, fringe |-> <<>>,
                                       meet |-> None], forward_fringe, 1, 1)
              IN  IF s.meet # None
                  THEN [found |-> TRUE, pred |-> s.pred, succ |-> s.succ, w |-> s.meet]
                  ELSE BidirLoop(g, s.pred, succ, s.fringe, reverse_fringe)
         ELSE LET s == ReverseScan(g, [pred |-> pred, succ |-> succ, fringe |-> <<>>,
                                       meet |-> None], reverse_fringe, 1, 1)
              IN  IF s.meet # None
                  THEN [found |-> TRUE, pred |-> s.pred, succ |-> s.succ, w |-> s.meet]
                  ELSE BidirLoop(g, pred, s.succ, forward_fringe, s.fringe)

\* the search without its first test, `if target == source`
_bidirectional_pred_succ_NoShortcut(g, source, target) ==
    BidirLoop(g, (source :> None), (target :> None), <<source>>, <<target>>)

_bidirectional_pred_succ(g, source, target) ==
    IF target = source
    THEN [found |-> TRUE, pred |-> (target :> None), succ |-> (source :> None), w |-> source]
    ELSE BidirLoop(g, (source :> None), (target :> None), <<source>>, <<target>>)

\* the chain w, parent[w], parent[parent[w]], ... up to the root
RECURSIVE Chain(_, _)
Chain(parent, w) == IF w = None THEN <<>> ELSE <<w>> \o Chain(parent, parent[w])

Reverse(s) == [i \in 1..Len(s) |-> s[Len(s) + 1 - i]]

\* the node list of the path, or <<>> where networkx raises NetworkXNoPath
nx_shortest_path(g, source, target) ==
    LET r == _bidirectional_pred_succ(g, source, target)
    IN  IF ~r.found THEN <<>>
        ELSE Reverse(Chain(r.pred, r.w)) \o Tail(Chain(r.succ, r.w))

---------------------------------------------------------------------------
(* wallet_shortest_path *)

\* range(len(path) - 1), as the positions i + 1 of the hops
HopIndices_SkipFirst(path) == 2..(Len(path) - 1)

HopIndices(path) == 1..(Len(path) - 1)

HopDetail(g, path, i) ==
    LET edge_data == g.data[<<path[i], path[i + 1]>>]
    IN  [hop |-> i, from |-> path[i], to |-> path[i + 1],
         asset |-> edge_data.asset, amount |-> edge_data.amount, fee |-> edge_data.fee,
         tx_hash |-> edge_data.tx_hash, timestamp |-> edge_data.timestamp,
         notes |-> edge_data.notes]

\* the loop with total_amount += edge_data["amount"]
RECURSIVE PathLoop_SumAmounts(_, _, _, _)
PathLoop_SumAmounts(g, path, hops, n) ==
    IF n = 0 \/ n \notin hops
    THEN [path_details |-> <<>>, total_amount |-> 0, total_fees |-> 0]
    ELSE LET before == PathLoop_SumAmounts(g, path, hops, n - 1)
             d      == HopDetail(g, path, n)
         IN  [path_details |-> Append(before.path_details, d),
              total_amount |-> before.total_amount + d.amount,
              total_fees   |-> before.total_fees + d.fee]

\* path_details, total_amount and total_fees after the hops up to position n
RECURSIVE PathLoop(_, _, _, _)
PathLoop(g, path, hops, n) ==
    IF n = 0 \/ n \notin hops
    THEN [path_details |-> <<>>, total_amount |-> 0, total_fees |-> 0]
    ELSE LET before == PathLoop(g, path, hops, n - 1)
             d      == HopDetail(g, path, n)
         IN  [path_details |-> Append(before.path_details, d),
              total_amount |-> d.amount,
              total_fees   |-> before.total_fees + d.fee]

wallet_shortest_path(g, source, target) ==
    IF NotInGraph(g, source) THEN [kind |-> "source_not_found", wallet |-> source]
    ELSE IF NotInGraph(g, target) THEN [kind |-> "target_not_found", wallet |-> target]
    ELSE LET path == nx_shortest_path(g, source, target)
         IN  IF path = <<>>
             THEN [kind |-> "no_path", source |-> source, target |-> target]
             ELSE LET acc == PathLoop(g, path, HopIndices(path), Len(path) - 1)
                  IN  [kind         |-> "path",
                       source       |-> source,
                       target       |-> target,
                       path_length  |-> Len(path),
                       path_nodes   |-> path,
                       total_hops   |-> Len(acc.path_details),
                       total_fees   |-> acc.total_fees,
                       final_amount |-> acc.total_amount,
                       path_details |-> acc.path_details]

---------------------------------------------------------------------------
(* wallet_outward_hops and wallet_inward_flows: breadth-first search from  *)
(* the start wallet.  visited maps a wallet to the depth of its discovery; *)
(* order lists visited's keys in insertion order; queue holds (wallet,     *)
(* depth) pairs; edges is edges_found.                                     *)

\* if depth >= max_depth: continue
DepthExhausted_Strict(depth, max_depth) == depth > max_depth

DepthExhausted(depth, max_depth) == depth >= max_depth

FoundEdge(g, from, to, depth) ==
    LET edge_data == g.data[<<from, to>>]
    IN  [from |-> from, to |-> to, depth |-> depth,
         asset |-> edge_data.asset, amount |-> edge_data.amount, fee |-> edge_data.fee,
         tx_hash |-> edge_data.tx_hash, timestamp |-> edge_data.timestamp,
         notes |-> edge_data.notes]

\* the neighbour entered into visited and the queue at every discovery
ShouldVisit_Always(s, neighbor, d) == TRUE

\* if neighbor not in visited or visited[neighbor] > depth + 1
ShouldVisit(s, neighbor, d) ==
    \/ neighbor \notin DOMAIN s.visited
    \/ s.visited[neighbor] > d

\* visited[neighbor] = depth + 1; queue.append((neighbor, depth + 1))
Visit_Reassign(s, neighbor, d) ==
    [s EXCEPT !.visited  = (neighbor :> d),
              !.order    = <<neighbor>>,
              !.queue    = Append(@, [wallet |-> neighbor, depth |-> d]),
              !.enqueued = Append(@, [wallet |-> neighbor, depth |-> d])]

Visit(s, neighbor, d) ==
    [s EXCEPT !.visited  = (neighbor :> d) @@ @,
              !.order    = AppendNew(@, neighbor),
              !.queue    = Append(@, [wallet |-> neighbor, depth |-> d]),
              !.enqueued = Append(@, [wallet |-> neighbor, depth |-> d])]

\* the outward loop left after its first neighbour
RECURSIVE ExpandOut_FirstOnly(_, _, _, _, _)
ExpandOut_FirstOnly(g, s, current_wallet, depth, j) ==
    IF j > Len(g.succ[current_wallet]) \/ j > 1 THEN s
    ELSE LET neighbor == g.succ[current_wallet][j]
             s1 == [s EXCEPT !.edges =
                        Append(@, FoundEdge(g, current_wallet, neighbor, depth + 1))]
             s2 == IF ShouldVisit(s1, neighbor, depth + 1)
                   THEN Visit(s1, neighbor, depth + 1)
                   ELSE s1
         IN  ExpandOut_FirstOnly(g, s2, current_wallet, depth, j + 1)

\* for neighbor in g.successors(current_wallet): ...
RECURSIVE ExpandOut(_, _, _, _, _)
ExpandOut(g, s, current_wallet, depth, j) ==
    IF j > Len(g.succ[current_wallet]) THEN s
    ELSE LET neighbor == g.succ[current_wallet][j]
             s1 == [s EXCEPT !.edges =
                        Append(@, FoundEdge(g, current_wallet, neighbor, depth + 1))]
             s2 == IF ShouldVisit(s1, neighbor, depth + 1)
                   THEN Visit(s1, neighbor, depth + 1)
                   ELSE s1
         IN  ExpandOut(g, s2, current_wallet, depth, j + 1)

\* the inward loop that tags an edge with the depth of the wallet it arrives at
RECURSIVE ExpandIn_SameDepth(_, _, _, _, _)
ExpandIn_SameDepth(g, s, current_wallet, depth, j) ==
    IF j > Len(g.pred[current_wallet]) THEN s
    ELSE LET predecessor == g.pred[current_wallet][j]
             s1 == [s EXCEPT !.edges =
                        Append(@, FoundEdge(g, predecessor, current_wallet, depth))]
             s2 == IF ShouldVisit(s1, predecessor, depth + 1)
                   THEN Visit(s1, predecessor, depth + 1)
                   ELSE s1
         IN  ExpandIn_SameDepth(g, s2, current_wallet, depth, j + 1)

\* for predecessor in g.predecessors(current_wallet): ...
RECURSIVE ExpandIn(_, _, _, _, _)
ExpandIn(g, s, current_wallet, depth, j) ==
    IF j > Len(g.pred[current_wallet]) THEN s
    ELSE LET predecessor == g.pred[current_wallet][j]
             s1 == [s EXCEPT !.edges =
                        Append(@, FoundEdge(g, predecessor, current_wallet, depth + 1))]
             s2 == IF ShouldVisit(s1, predecessor, depth + 1)
                   THEN Visit(s1, predecessor, depth + 1)
                   ELSE s1
         IN  ExpandIn(g, s2, current_wallet, depth, j + 1)

\* one iteration that reads queue[0] and takes it off the queue only when it goes
\* on to expand the wallet
LoopIteration_PeekFirst(g, s, max_depth, outward) ==
    LET cur  == Head(s.queue)
        rest == [s EXCEPT !.queue = Tail(@), !.expanded = Append(@, cur.wallet)]
    IN  IF DepthExhausted(cur.depth, max_depth) THEN s
        ELSE IF outward THEN ExpandOut(g, rest, cur.wallet, cur.depth, 1)
                        ELSE ExpandIn(g, rest, cur.wallet, cur.depth, 1)

\* one iteration of the while loop: current_wallet, depth = queue.pop(0); the depth
\* test; the for loop over the neighbours
LoopIteration(g, s, max_depth, outward) ==
    LET cur  == Head(s.queue)
        rest == [s EXCEPT !.queue = Tail(@)]
        open == [rest EXCEPT !.expanded = Append(@, cur.wallet)]
    IN  IF DepthExhausted(cur.depth, max_depth) THEN rest
        ELSE IF outward THEN ExpandOut(g, open, cur.wallet, cur.depth, 1)
                        ELSE ExpandIn(g, open, cur.wallet, cur.depth, 1)

\* while queue: ...
RECURSIVE BfsLoop(_, _, _, _)
BfsLoop(g, s, max_depth, outward) ==
    IF s.queue = <<>> THEN s
    ELSE BfsLoop(g, LoopIteration(g, s, max_depth, outward), max_depth, outward)

\* the traversal begun with an empty visited dict
BfsStart_Unvisited(start) ==
    [visited  |-> <<>>,
     order    |-> <<>>,
     queue    |-> <<[wallet |-> start, depth |-> 0]>>,
     edges    |-> <<>>,
     enqueued |-> <<[wallet |-> start, depth |-> 0]>>,
     expanded |-> <<>>]

\* visited = {start_wallet: 0}; queue = [(start_wallet, 0)]; edges_found = []
\* enqueued and expanded keep the history of the run: every entry ever appended to
\* the queue, and every wallet whose neighbours the for loop went through
BfsStart(start) ==
    [visited  |-> (start :> 0),
     order    |-> <<start>>,
     queue    |-> <<[wallet |-> start, depth |-> 0]>>,
     edges    |-> <<>>,
     enqueued |-> <<[wallet |-> start, depth |-> 0]>>,
     expanded |-> <<>>]

\* by_depth: the edges of edges_found grouped by their depth, in order
EdgesByDepth(edges) ==
    [d \in {e.depth : e \in Range(edges)} |->
        LET AtDepth(e) == e.depth = d IN SelectSeq(edges, AtDepth)]

\* wallets_by_depth[depth] = list(set([edge["to"] for edge in by_depth[depth]]))
WalletsByDepth(by_depth) ==
    [d \in DOMAIN by_depth |-> {e.to : e \in Range(by_depth[d])}]

\* the result built once the loop has ended
OutwardResult(s, start_wallet, max_depth) ==
    LET by_depth == EdgesByDepth(s.edges)
    IN  [kind                  |-> "outward",
         start_wallet          |-> start_wallet,
         max_depth             |-> max_depth,
         total_edges           |-> Len(s.edges),
         total_wallets_reached |-> Len(s.order) - 1,
         wallets_by_depth      |-> WalletsByDepth(by_depth),
         edges_by_depth        |-> by_depth,
         all_reachable_wallets |-> s.order]

InwardResult(s, target_wallet, max_depth) ==
    LET IsSource(w) == w # target_wallet
    IN  [kind                 |-> "inward",
         target_wallet        |-> target_wallet,
         max_depth            |-> max_depth,
         total_inbound_edges  |-> Len(s.edges),
         total_source_wallets |-> Len(s.order) - 1,
         edges_by_depth       |-> EdgesByDepth(s.edges),
         all_source_wallets   |-> SelectSeq(s.order, IsSource)]

wallet_outward_hops(g, start_wallet, max_depth) ==
    IF NotInGraph(g, start_wallet) THEN [kind |-> "wallet_not_found", wallet |-> start_wallet]
    ELSE OutwardResult(BfsLoop(g, BfsStart(start_wallet), max_depth, TRUE),
                       start_wallet, max_depth)

wallet_inward_flows(g, target_wallet, max_depth) ==
    IF NotInGraph(g, target_wallet) THEN [kind |-> "wallet_not_found", wallet |-> target_wallet]
    ELSE InwardResult(BfsLoop(g, BfsStart(target_wallet), max_depth, FALSE),
                      target_wallet, max_depth)

---------------------------------------------------------------------------
(* wallet_transaction_summary *)

OutboundEdge(g, wallet, successor) ==
    LET edge_data == g.data[<<wallet, successor>>]
    IN  [to |-> successor,
         asset |-> edge_data.asset, amount |-> edge_data.amount, fee |-> edge_data.fee,
         tx_hash |-> edge_data.tx_hash, timestamp |-> edge_data.timestamp,
         notes |-> edge_data.notes]

InboundEdge(g, wallet, predecessor) ==
    LET edge_data == g.data[<<predecessor, wallet>>]
    IN  [from |-> predecessor,
         asset |-> edge_data.asset, amount |-> edge_data.amount, fee |-> edge_data.fee,
         tx_hash |-> edge_data.tx_hash, timestamp |-> edge_data.timestamp,
         notes |-> edge_data.notes]

\* totals[asset] = totals.get(asset, 0) + edge["amount"], over the first n edges
RECURSIVE TotalsByAsset(_, _)
TotalsByAsset(edges, n) ==
    IF n = 0 THEN <<>>
    ELSE LET before == TotalsByAsset(edges, n - 1)
             asset  == edges[n].asset
             old    == IF asset \in DOMAIN before THEN before[asset] ELSE 0
         IN  (asset :> (old + edges[n].amount)) @@ before

\* len(set([...])) with the `- 1` of total_wallets_reached copied along
UniqueWallets_ExcludeOne(addresses) == Cardinality(Range(addresses)) - 1

\* len(set([e["to"] for e in outbound_edges]))
UniqueWallets(addresses) == Cardinality(Range(addresses))

wallet_transaction_summary(g, wallet_address) ==
    IF NotInGraph(g, wallet_address)
    THEN [kind |-> "wallet_not_found", wallet |-> wallet_address]
    ELSE LET outbound_edges == [j \in 1..Len(g.succ[wallet_address]) |->
                                   OutboundEdge(g, wallet_address, g.succ[wallet_address][j])]
             inbound_edges  == [j \in 1..Len(g.pred[wallet_address]) |->
                                   InboundEdge(g, wallet_address, g.pred[wallet_address][j])]
         IN  [kind                        |-> "summary",
              wallet_address              |-> wallet_address,
              total_outbound_transactions |-> Len(outbound_edges),
              total_inbound_transactions  |-> Len(inbound_edges),
              unique_outbound_wallets     |->
                  UniqueWallets([j \in 1..Len(outbound_edges) |-> outbound_edges[j].to]),
              unique_inbound_wallets      |->
                  UniqueWallets([j \in 1..Len(inbound_edges) |-> inbound_edges[j].from]),
              outbound_totals_by_asset    |-> TotalsByAsset(outbound_edges, Len(outbound_edges)),
              inbound_totals_by_asset     |-> TotalsByAsset(inbound_edges, Len(inbound_edges)),
              outbound_transactions       |-> outbound_edges,
              inbound_transactions        |-> inbound_edges]

---------------------------------------------------------------------------
(* xref_tool.py: resolve_wallet and validate_wallet_mapping *)

\* df[df["wallet"] == wallet_address]: the matching rows, in file order
MatchRows(rows, wallet_address) ==
    LET IsMatch(r) == r.wallet = wallet_address IN SelectSeq(rows, IsMatch)

MaxConfidence(match) ==
    CHOOSE c \in {match[i].confidence : i \in 1..Len(match)} :
        \A i \in 1..Len(match) : match[i].confidence <= c

\* match["confidence"].idxmax(): the first row that holds the maximum
idxmax_Last(match) ==
    CHOOSE i \in 1..Len(match) :
        /\ match[i].confidence = MaxConfidence(match)
        /\ \A k \in (i + 1)..Len(match) : match[k].confidence # MaxConfidence(match)

idxmax(match) ==
    CHOOSE i \in 1..Len(match) :
        /\ match[i].confidence = MaxConfidence(match)
        /\ \A k \in 1..(i - 1) : match[k].confidence # MaxConfidence(match)

\* the thresholds taken as open lower bounds
_get_confidence_level_Open(confidence) ==
    IF confidence > 90 THEN "very_high"
    ELSE IF confidence > 80 THEN "high"
    ELSE IF confidence > 60 THEN "medium"
    ELSE IF confidence > 40 THEN "low"
    ELSE "very_low"

_get_confidence_level(confidence) ==
    IF confidence >= 90 THEN "very_high"
    ELSE IF confidence >= 80 THEN "high"
    ELSE IF confidence >= 60 THEN "medium"
    ELSE IF confidence >= 40 THEN "low"
    ELSE "very_low"

resolve_wallet(exists, rows, wallet_address) ==
    IF ~exists THEN [kind |-> "xref_file_not_found"]
    ELSE LET match == MatchRows(rows, wallet_address)
         IN  IF match = <<>> THEN [kind |-> "no_entity_mapping", wallet |-> wallet_address]
             ELSE LET best == IF Len(match) > 1 THEN match[idxmax(match)] ELSE match[1]
                  IN  [kind               |-> "resolved",
                       wallet_address     |-> wallet_address,
                       entity             |-> best.entity,
                       entity_type        |-> best.type,
                       confidence_score   |-> best.confidence,
                       source             |-> best.source,
                       resolution_quality |-> _get_confidence_level(best.confidence)]

\* str.lower(), character by character
LowerChar(ch) ==
    CASE ch = "A" -> "a"
      [] ch = "B" -> "b"
      [] ch = "H" -> "h"
      [] ch = "S" -> "s"
      [] ch = "X" -> "x"
      [] OTHER    -> ch

lower(str) == [i \in 1..Len(str) |-> LowerChar(str[i])]

\* Python's `t in s` on strings: t occurs in s as a contiguous run
IsSubstring(t, s) ==
    \E i \in 1..(Len(s) - Len(t) + 1) : SubSeq(s, i, i + Len(t) - 1) = t

\* the comparison with only `expected in actual` tried
MatchStatus_OneWay(actual_entity, expected_entity) ==
    IF lower(actual_entity) = lower(expected_entity)
    THEN "EXACT_MATCH"
    ELSE IF IsSubstring(lower(expected_entity), lower(actual_entity))
         THEN "PARTIAL_MATCH"
         ELSE "MISMATCH"

\* the if / elif / else that sets validation_status for a mapped wallet
MatchStatus(actual_entity, expected_entity) ==
    IF lower(actual_entity) = lower(expected_entity)
    THEN "EXACT_MATCH"
    ELSE IF \/ IsSubstring(lower(expected_entity), lower(actual_entity))
            \/ IsSubstring(lower(actual_entity), lower(expected_entity))
         THEN "PARTIAL_MATCH"
         ELSE "MISMATCH"

validate_wallet_mapping(exists, rows, wallet_address, expected_entity) ==
    IF ~exists THEN [kind |-> "xref_file_not_found"]
    ELSE LET match == MatchRows(rows, wallet_address)
         IN  IF match = <<>>
             THEN [kind              |-> "validated",
                   wallet_address    |-> wallet_address,
                   expected_entity   |-> expected_entity,
                   validation_status |-> "NO_MAPPING",
                   confidence        |-> 0]
             ELSE LET actual_entity == match[1].entity
                      confidence    == match[1].confidence
                      source        == match[1].source
                      status        == MatchStatus(actual_entity, expected_entity)
                  IN  [kind               |-> "validated",
                       wallet_address     |-> wallet_address,
                       expected_entity    |-> expected_entity,
                       actual_entity      |-> actual_entity,
                       validation_status  |-> status,
                       confidence         |-> confidence,
                       source             |-> source,
                       quality_assessment |-> _get_confidence_level(confidence)]

\* the range filter with the upper limit left out of the range
InRange_Exclusive(confidence, min_confidence, max_confidence) ==
    confidence >= min_confidence /\ confidence < max_confidence

\* (df["confidence"] >= min_confidence) & (df["confidence"] <= max_confidence)
InRange(confidence, min_confidence, max_confidence) ==
    confidence >= min_confidence /\ confidence <= max_confidence

\* sort_values("confidence", ascending=False) with the default sort kind, which
\* is not stable: rows of equal confidence may come out in any order
sort_values_descending(rows, by) ==
    LET n    == Len(rows)
        perm == {q \in [1..n -> 1..n] : \A i, j \in 1..n : i # j => q[i] # q[j]}
    IN  {[i \in 1..n |-> rows[q[i]]] :
            q \in {q \in perm : \A i \in 1..(n - 1) :
                                   rows[q[i]][by] >= rows[q[i + 1]][by]}}

RECURSIVE SumConfidence(_, _)
SumConfidence(rows, n) ==
    IF n = 0 THEN 0 ELSE SumConfidence(rows, n - 1) + rows[n].confidence

\* round(mean, 3) in thousandths, of confidences kept in hundredths.  No half-way
\* case arises with the even confidences and the row counts of this model.
round3(sum, count) == (20 * sum + count) \div (2 * count)

\* the values search_by_confidence may return
search_by_confidence(exists, rows, min_confidence, max_confidence) ==
    IF ~exists THEN {[kind |-> "xref_file_not_found"]}
    ELSE LET Keep(r)  == InRange(r.confidence, min_confidence, max_confidence)
             filtered == SelectSeq(rows, Keep)
             High(r)   == r.confidence >= 80
             Medium(r) == r.confidence >= 50 /\ r.confidence < 80
             Low(r)    == r.confidence < 50
         IN  IF filtered = <<>>
             THEN {[kind |-> "no_mappings_in_range",
                    min |-> min_confidence, max |-> max_confidence]}
             ELSE {[kind             |-> "mappings",
                    confidence_range |-> [min |-> min_confidence, max |-> max_confidence],
                    total_mappings   |-> Len(sorted),
                    confidence_distribution |->
                        [high_confidence   |-> Len(SelectSeq(sorted, High)),
                         medium_confidence |-> Len(SelectSeq(sorted, Medium)),
                         low_confidence    |-> Len(SelectSeq(sorted, Low))],
                    average_confidence |->
                        round3(SumConfidence(sorted, Len(sorted)), Len(sorted)),
                    mappings         |-> sorted] :
                   sorted \in sort_values_descending(filtered, "confidence")}

\* min and max of a non-empty column
ColumnMin(rows) ==
    CHOOSE c \in {rows[i].confidence : i \in 1..Len(rows)} :
        \A i \in 1..Len(rows) : c <= rows[i].confidence

ColumnMax(rows) ==
    CHOOSE c \in {rows[i].confidence : i \in 1..Len(rows)} :
        \A i \in 1..Len(rows) : c >= rows[i].confidence

RowsOfSource(rows, source) ==
    LET FromSource(r) == r.source = source IN SelectSeq(rows, FromSource)

\* df.groupby("source")["confidence"].agg(["mean", "count", "min", "max"]).round(3):
\* one line per source that has rows, in the order of the sorted group keys
groupby_source(rows) ==
    LET HasRows(source) == RowsOfSource(rows, source) # <<>>
        keys == SelectSeq(SortedSources, HasRows)
    IN  [k \in 1..Len(keys) |->
            LET group == RowsOfSource(rows, keys[k])
            IN  [source |-> keys[k],
                 mean   |-> round3(SumConfidence(group, Len(group)), Len(group)),
                 count  |-> Len(group),
                 min    |-> 10 * ColumnMin(group),
                 max    |-> 10 * ColumnMax(group)]]

\* source_stats["mean"].idxmax() and idxmin(): the first line that holds the extreme
idxmax_mean(source_stats) ==
    CHOOSE i \in 1..Len(source_stats) :
        /\ \A k \in 1..Len(source_stats) : source_stats[k].mean <= source_stats[i].mean
        /\ \A k \in 1..(i - 1) : source_stats[k].mean # source_stats[i].mean

idxmin_mean(source_stats) ==
    CHOOSE i \in 1..Len(source_stats) :
        /\ \A k \in 1..Len(source_stats) : source_stats[k].mean >= source_stats[i].mean
        /\ \A k \in 1..(i - 1) : source_stats[k].mean # source_stats[i].mean

\* means are in thousandths: 0.3 is 300 and 0.6 is 600
_generate_source_recommendations(source_stats) ==
    IF source_stats = <<>> THEN <<>>
    ELSE LET best_source  == source_stats[idxmax_mean(source_stats)]
             worst_source == source_stats[idxmin_mean(source_stats)]
             LowMean(st)  == st.mean < 600
             low_confidence_sources == SelectSeq(source_stats, LowMean)
         IN  <<[flag |-> "most_reliable", source |-> best_source.source,
                mean |-> best_source.mean]>>
             \o (IF best_source.mean - worst_source.mean > 300
                 THEN <<[flag |-> "consider_reviewing", source |-> worst_source.source,
                         mean |-> worst_source.mean]>>
                 ELSE <<>>)
             \o (IF Len(low_confidence_sources) > 0
                 THEN <<[flag |-> "low_average_confidence",
                         count |-> Len(low_confidence_sources)]>>
                 ELSE <<>>)

\* the values get_source_analysis may return: the ranking is sorted with the default
\* sort kind, so sources of equal mean may be ranked in any order; with no rows the
\* aggregation yields an empty table or raises, and the except clause then returns
\* the error text
get_source_analysis(exists, rows) ==
    IF ~exists THEN {[kind |-> "xref_file_not_found"]}
    ELSE LET source_confidence == groupby_source(rows)
             sources  == {rows[i].source : i \in 1..Len(rows)}
             Example(r) == [wallet |-> r.wallet, entity |-> r.entity, type |-> r.type,
                            confidence |-> r.confidence]
         IN  {[kind                |-> "source_analysis",
               total_sources       |-> Cardinality(sources),
               source_distribution |->
                   [src \in sources |-> Len(RowsOfSource(rows, src))],
               confidence_by_source       |-> source_confidence,
               source_reliability_ranking |-> source_reliability,
               source_examples |->
                   [src \in sources |->
                       LET of_source == RowsOfSource(rows, src)
                       IN  [k \in 1..(IF Len(of_source) < 2 THEN Len(of_source) ELSE 2)
                               |-> Example(of_source[k])]],
               recommendations |-> _generate_source_recommendations(source_confidence)] :
              source_reliability \in sort_values_descending(source_confidence, "mean")}
             \cup (IF rows = <<>> THEN {[kind |-> "error_analyzing_sources"]} ELSE {})

---------------------------------------------------------------------------
(* Exceptions.  Every tool body, the reading of the file included, sits in *)
(* one try block whose `except Exception` returns an error text.  The      *)
(* internal failure modelled is the KeyError of a column that the file's   *)
(* header lacks; all rows of a file have the columns of its header.        *)

TxColumns == {"from", "to", "asset", "amount", "fee", "tx_hash", "timestamp", "notes"}

ResolveColumns == {"entity", "type", "confidence", "source"}

ValidateColumns == {"entity", "confidence", "source"}

\* row[column] for a column the row does not have
KeyError(row, columns) == ~(columns \subseteq DOMAIN row)

\* the construction without `if not TX_FILE.exists()`: read_csv raises on a
\* missing file
BuildRaises_MissingFile(exists, rows) ==
    \/ ~exists
    \/ \E i \in 1..Len(rows) : KeyError(rows[i], TxColumns)

\* _build_transaction_graph raises in the loop over the rows
BuildRaises(exists, rows) ==
    exists /\ \E i \in 1..Len(rows) : KeyError(rows[i], TxColumns)

\* resolve_wallet raises when it builds the result from the matching row
ResolveRaises(exists, rows, wallet_address) ==
    /\ exists
    /\ MatchRows(rows, wallet_address) # <<>>
    /\ KeyError(MatchRows(rows, wallet_address)[1], ResolveColumns)

\* validate_wallet_mapping raises when it reads match.iloc[0]
ValidateRaises(exists, rows, wallet_address) ==
    /\ exists
    /\ MatchRows(rows, wallet_address) # <<>>
    /\ KeyError(MatchRows(rows, wallet_address)[1], ValidateColumns)

\* a try block without the except clause: the exception reaches the caller
try_except_NoHandler(raised, value, message) ==
    IF raised THEN [kind |-> "exception_propagated"] ELSE value

\* try: return <value>  except Exception as e: return f"<message>: {str(e)}"
try_except(raised, value, message) ==
    IF raised THEN [kind |-> "error", message |-> message] ELSE value

---------------------------------------------------------------------------
(* update_claim_status of src/src/tools/claims_repo.py.  A call reads the   *)
(* whole claims file into a DataFrame, changes the status in the DataFrame, *)
(* writes the whole DataFrame back and then logs the change; nothing locks  *)
(* the file, so the steps of two callers interleave.                        *)

NoUpdate ==
    [pc |-> "idle", claim_id |-> None, new_status |-> None, status_before |-> None,
     df |-> <<>>, old_status |-> None, result |-> NoResult]

\* df["claim_id"] == claim_id
ClaimMask(df, claim_id) == {i \in 1..Len(df) : df[i].claim_id = claim_id}

\* df.loc[claim_mask, "status"].iloc[0]
FirstStatus(df, claim_id) ==
    LET mask == ClaimMask(df, claim_id)
    IN  df[CHOOSE i \in mask : \A k \in mask : i <= k].status

\* df.loc[claim_mask, "status"] = new_status
SetStatus(df, claim_id, new_status) ==
    [i \in 1..Len(df) |->
        IF df[i].claim_id = claim_id THEN [df[i] EXCEPT !.status = new_status]
                                     ELSE df[i]]

\* the INSERT into claims_audit; when sqlite raises, the except clause prints a
\* warning and the caller goes on
_log_claim_action(audit, inserted, claim_id, action, old_status, new_status) ==
    IF inserted
    THEN Append(audit, [claim_id |-> claim_id, action |-> action,
                        old_status |-> old_status, new_status |-> new_status])
    ELSE audit

\* the claims file is put in place by an external collaborator, before the calls
CreateClaimsFile ==
    /\ ~claimsFileExists
    /\ \A p \in Procs : updates[p].pc = "idle"
    /\ claimsFileExists' = TRUE
    /\ \E rows \in InitialClaimFiles : claimsRows' = rows
    /\ UNCHANGED <<toolVars, claimsAudit, updates>>

\* the call is made; status_before notes the claim's status in the file at that time
UpdateBegin(p) ==
    /\ updates[p].pc = "idle"
    /\ Len(claimsAudit) < MaxAuditRows
    /\ \E claim_id \in ClaimIds, new_status \in NewStatuses :
          updates' = [updates EXCEPT ![p] =
              [NoUpdate EXCEPT
                  !.pc = "read", !.claim_id = claim_id, !.new_status = new_status,
                  !.status_before =
                      IF ClaimMask(claimsRows, claim_id) = {} THEN None
                      ELSE FirstStatus(claimsRows, claim_id)]]
    /\ UNCHANGED <<toolVars, claimsFileExists, claimsRows, claimsAudit>>

\* if not CLAIMS_FILE.exists(); df = pd.read_csv(CLAIMS_FILE); if not claim_mask.any()
UpdateRead(p) ==
    /\ updates[p].pc = "read"
    /\ LET u == updates[p]
       IN  updates' = [updates EXCEPT ![p] =
             IF ~claimsFileExists
             THEN [u EXCEPT !.pc = "done", !.result = [kind |-> "claims_file_not_found"]]
             ELSE IF ClaimMask(claimsRows, u.claim_id) = {}
                  THEN [u EXCEPT !.pc = "done",
                                 !.result = [kind |-> "claim_not_found",
                                             claim_id |-> u.claim_id]]
                  ELSE [u EXCEPT !.pc = "modify", !.df = claimsRows]]
    /\ UNCHANGED <<toolVars, claimsFileExists, claimsRows, claimsAudit>>

\* old_status = ...; df.loc[claim_mask, "status"] = new_status
UpdateModify(p) ==
    /\ updates[p].pc = "modify"
    /\ LET u == updates[p]
       IN  updates' = [updates EXCEPT ![p] =
             [u EXCEPT !.pc = "write",
                       !.old_status = FirstStatus(u.df, u.claim_id),
                       !.df = SetStatus(u.df, u.claim_id, u.new_status)]]
    /\ UNCHANGED <<toolVars, claimsFileExists, claimsRows, claimsAudit>>

\* df.to_csv(CLAIMS_FILE, index=False)
UpdateWrite(p) ==
    /\ updates[p].pc = "write"
    /\ claimsRows' = updates[p].df
    /\ updates' = [updates EXCEPT ![p].pc = "log"]
    /\ UNCHANGED <<toolVars, claimsFileExists, claimsAudit>>

\* _log_claim_action(...); result = {..., "success": True}
UpdateLog(p) ==
    /\ updates[p].pc = "log"
    /\ \E inserted \in BOOLEAN :
          claimsAudit' = _log_claim_action(claimsAudit, inserted, updates[p].claim_id,
                                           "status_update", updates[p].old_status,
                                           updates[p].new_status)
    /\ LET u == updates[p]
       IN  updates' = [updates EXCEPT ![p] =
             [u EXCEPT !.pc = "done",
                       !.result = [kind |-> "updated", claim_id |-> u.claim_id,
                                   old_status |-> u.old_status,
                                   new_status |-> u.new_status, success |-> TRUE]]]
    /\ UNCHANGED <<toolVars, claimsFileExists, claimsRows>>

\* return json.dumps(result): the caller has the value and may call again
UpdateReturn(p) ==
    /\ updates[p].pc = "done"
    /\ updates' = [updates EXCEPT ![p] = NoUpdate]
    /\ UNCHANGED <<toolVars, claimsFileExists, claimsRows, claimsAudit>>

---------------------------------------------------------------------------
(* The files change between calls *)

TxRow(from, to, p, ts, hash) ==
    [tx_hash |-> hash, timestamp |-> ts, from |-> from, to |-> to,
     asset |-> p[1], amount |-> p[2], fee |-> p[3], notes |-> ""]

CreateTxFile ==
    /\ ~txFileExists
    /\ txFileExists' = TRUE
    /\ call' = NoCall
    /\ result' = NoResult
    /\ UNCHANGED <<claimsVars, txRows, xrefFileExists, xrefRows>>

AppendTxRow ==
    /\ txFileExists
    /\ Len(txRows) < MaxRecords
    /\ \E from \in Wallets, to \in Wallets, p \in TxPayloads, ts \in ParsableTimestamps :
          txRows' = Append(txRows, TxRow(from, to, p, ts, Len(txRows) + 1))
    /\ call' = NoCall
    /\ result' = NoResult
    /\ UNCHANGED <<claimsVars, txFileExists, xrefFileExists, xrefRows>>

\* a row of any content: the file is written by an external collaborator
AppendRawTxRow ==
    /\ txFileExists
    /\ Len(txRows) < MaxRawRecords
    /\ \E from \in Wallets, to \in Wallets, p \in RawPayloads, ts \in Timestamps :
          txRows' = Append(txRows, TxRow(from, to, p, ts, Len(txRows) + 1))
    /\ call' = NoCall
    /\ result' = NoResult
    /\ UNCHANGED <<claimsVars, txFileExists, xrefFileExists, xrefRows>>

AppendPaidTxRow ==
    /\ txFileExists
    /\ Len(txRows) < MaxPayRecords
    /\ \E from \in Wallets, to \in Wallets, p \in PayPayloads, ts \in ParsableTimestamps :
          txRows' = Append(txRows, TxRow(from, to, p, ts, Len(txRows) + 1))
    /\ call' = NoCall
    /\ result' = NoResult
    /\ UNCHANGED <<claimsVars, txFileExists, xrefFileExists, xrefRows>>

AppendTierRow ==
    /\ xrefFileExists
    /\ Len(xrefRows) < MaxTierMappings
    /\ \E w \in XrefWallets, c \in TierConfidences :
          xrefRows' = Append(xrefRows, [wallet |-> w, entity |-> <<"A", "X">>,
                                        type |-> "exchange_hot_wallet",
                                        confidence |-> c, source |-> "kyc"])
    /\ call' = NoCall
    /\ result' = NoResult
    /\ UNCHANGED <<claimsVars, txFileExists, txRows, xrefFileExists>>

AppendSearchRow ==
    /\ xrefFileExists
    /\ Len(xrefRows) < MaxSearchRows
    /\ \E w \in XrefWallets, c \in SearchConfidences :
          xrefRows' = Append(xrefRows, [wallet |-> w, entity |-> <<"A", "X">>,
                                        type |-> "exchange_hot_wallet",
                                        confidence |-> c, source |-> "kyc"])
    /\ call' = NoCall
    /\ result' = NoResult
    /\ UNCHANGED <<claimsVars, txFileExists, txRows, xrefFileExists>>

AppendSourceRow ==
    /\ xrefFileExists
    /\ Len(xrefRows) < MaxSourceRows
    /\ \E src \in Range(SortedSources), c \in SourceConfidences :
          xrefRows' = Append(xrefRows, [wallet |-> "0xabc", entity |-> <<"A", "X">>,
                                        type |-> "exchange_hot_wallet",
                                        confidence |-> c, source |-> src])
    /\ call' = NoCall
    /\ result' = NoResult
    /\ UNCHANGED <<claimsVars, txFileExists, txRows, xrefFileExists>>

\* a row of a ledger whose header may lack the fee column
AppendFailTxRow ==
    /\ txFileExists
    /\ Len(txRows) < MaxFailRecords
    /\ \E from \in Wallets, to \in Wallets, p \in TxPayloads, ts \in ParsableTimestamps,
          columns \in {TxColumns, TxColumns \ {"fee"}} :
          LET full == TxRow(from, to, p, ts, Len(txRows) + 1)
          IN  /\ \A i \in 1..Len(txRows) : DOMAIN txRows[i] = columns
              /\ txRows' = Append(txRows, [c \in columns |-> full[c]])
    /\ call' = NoCall
    /\ result' = NoResult
    /\ UNCHANGED <<claimsVars, txFileExists, xrefFileExists, xrefRows>>

\* a row of a cross-reference file whose header may lack the entity column
AppendFailXrefRow ==
    /\ xrefFileExists
    /\ Len(xrefRows) < MaxFailMappings
    /\ \E w \in XrefWallets, e \in EntityNames, t \in EntityTypes,
          columns \in {{"wallet"} \cup ResolveColumns,
                       ({"wallet"} \cup ResolveColumns) \ {"entity"}} :
          LET full == [wallet |-> w, entity |-> e, type |-> t,
                       confidence |-> 90, source |-> "kyc"]
          IN  /\ \A i \in 1..Len(xrefRows) : DOMAIN xrefRows[i] = columns
              /\ xrefRows' = Append(xrefRows, [c \in columns |-> full[c]])
    /\ call' = NoCall
    /\ result' = NoResult
    /\ UNCHANGED <<claimsVars, txFileExists, txRows, xrefFileExists>>

\* a row between two of the four wallets
AppendTieTxRow ==
    /\ txFileExists
    /\ Len(txRows) < MaxTieRecords
    /\ \E from \in TieWallets, p \in TxPayloads, ts \in ParsableTimestamps :
          \E to \in TieWallets \ {from} :
              txRows' = Append(txRows, TxRow(from, to, p, ts, Len(txRows) + 1))
    /\ call' = NoCall
    /\ result' = NoResult
    /\ UNCHANGED <<claimsVars, txFileExists, xrefFileExists, xrefRows>>

\* the ledger grows between two traversals: a traversal works on the graph it
\* built when it was called
AppendTraceTxRow ==
    /\ call = NoCall
    /\ txFileExists
    /\ Len(txRows) < MaxTraceRecords
    /\ \E from \in Wallets, to \in Wallets, p \in TxPayloads, ts \in ParsableTimestamps :
          txRows' = Append(txRows, TxRow(from, to, p, ts, Len(txRows) + 1))
    /\ call' = NoCall
    /\ result' = NoResult
    /\ UNCHANGED <<claimsVars, txFileExists, xrefFileExists, xrefRows>>

CreateXrefFile ==
    /\ ~xrefFileExists
    /\ xrefFileExists' = TRUE
    /\ call' = NoCall
    /\ result' = NoResult
    /\ UNCHANGED <<claimsVars, txFileExists, txRows, xrefRows>>

AppendXrefRow ==
    /\ xrefFileExists
    /\ Len(xrefRows) < MaxMappings
    /\ \E w \in XrefWallets, e \in EntityNames, t \in EntityTypes,
          c \in Confidences, src \in Sources :
          xrefRows' = Append(xrefRows, [wallet |-> w, entity |-> e, type |-> t,
                                        confidence |-> c, source |-> src])
    /\ call' = NoCall
    /\ result' = NoResult
    /\ UNCHANGED <<claimsVars, txFileExists, txRows, xrefFileExists>>

---------------------------------------------------------------------------
(* The tool calls.  The tools are synchronous: a call reads the file,      *)
(* builds the graph, answers and returns in one step, and the caller takes *)
(* the returned value before it calls again.                               *)

Idle == call = NoCall

Traversing == result.kind = "traversing"

ReturnToCaller ==
    /\ ~Idle
    /\ ~Traversing
    /\ call' = NoCall
    /\ result' = NoResult
    /\ UNCHANGED <<claimsVars, txFileExists, txRows, xrefFileExists, xrefRows>>

CallShortestPath ==
    \E source \in Wallets, target \in Wallets :
        /\ Idle
        /\ call' = [op |-> "wallet_shortest_path", source |-> source, target |-> target]
        /\ result' = try_except(
                         BuildRaises(txFileExists, txRows),
                         wallet_shortest_path(_build_transaction_graph(txFileExists, txRows),
                                              source, target),
                         "Error finding shortest path")
        /\ UNCHANGED <<claimsVars, txFileExists, txRows, xrefFileExists, xrefRows>>

CallTieShortestPath ==
    \E source \in TieWallets : \E target \in TieWallets \ {source} :
        /\ Idle
        /\ call' = [op |-> "wallet_shortest_path", source |-> source, target |-> target]
        /\ result' = try_except(
                         BuildRaises(txFileExists, txRows),
                         wallet_shortest_path(_build_transaction_graph(txFileExists, txRows),
                                              source, target),
                         "Error finding shortest path")
        /\ UNCHANGED <<claimsVars, txFileExists, txRows, xrefFileExists, xrefRows>>

CallOutwardHops ==
    \E start_wallet \in Wallets, max_depth \in Depths :
        /\ Idle
        /\ call' = [op |-> "wallet_outward_hops", wallet |-> start_wallet,
                    max_depth |-> max_depth]
        /\ result' = try_except(
                         BuildRaises(txFileExists, txRows),
                         wallet_outward_hops(_build_transaction_graph(txFileExists, txRows),
                                             start_wallet, max_depth),
                         "Error finding outward hops")
        /\ UNCHANGED <<claimsVars, txFileExists, txRows, xrefFileExists, xrefRows>>

CallInwardFlows ==
    \E target_wallet \in Wallets, max_depth \in Depths :
        /\ Idle
        /\ call' = [op |-> "wallet_inward_flows", wallet |-> target_wallet,
                    max_depth |-> max_depth]
        /\ result' = try_except(
                         BuildRaises(txFileExists, txRows),
                         wallet_inward_flows(_build_transaction_graph(txFileExists, txRows),
                                             target_wallet, max_depth),
                         "Error finding inward flows")
        /\ UNCHANGED <<claimsVars, txFileExists, txRows, xrefFileExists, xrefRows>>

CallTransactionSummary ==
    \E wallet_address \in Wallets :
        /\ Idle
        /\ call' = [op |-> "wallet_transaction_summary", wallet |-> wallet_address]
        /\ result' = try_except(
                         BuildRaises(txFileExists, txRows),
                         wallet_transaction_summary(
                             _build_transaction_graph(txFileExists, txRows), wallet_address),
                         "Error getting wallet summary")
        /\ UNCHANGED <<claimsVars, txFileExists, txRows, xrefFileExists, xrefRows>>

CallResolveWallet ==
    \E wallet_address \in XrefWallets :
        /\ Idle
        /\ call' = [op |-> "resolve_wallet", wallet |-> wallet_address]
        /\ result' = try_except(
                         ResolveRaises(xrefFileExists, xrefRows, wallet_address),
                         resolve_wallet(xrefFileExists, xrefRows, wallet_address),
                         "Error resolving wallet")
        /\ UNCHANGED <<claimsVars, txFileExists, txRows, xrefFileExists, xrefRows>>

CallValidateWalletMapping ==
    \E wallet_address \in XrefWallets, expected_entity \in ExpectedNames :
        /\ Idle
        /\ call' = [op |-> "validate_wallet_mapping", wallet |-> wallet_address,
                    expected_entity |-> expected_entity]
        /\ result' = try_except(
                         ValidateRaises(xrefFileExists, xrefRows, wallet_address),
                         validate_wallet_mapping(xrefFileExists, xrefRows, wallet_address,
                                                 expected_entity),
                         "Error validating wallet mapping")
        /\ UNCHANGED <<claimsVars, txFileExists, txRows, xrefFileExists, xrefRows>>

CallSearchByConfidence ==
    \E min_confidence \in SearchLimits, max_confidence \in SearchLimits :
        /\ Idle
        /\ call' = [op |-> "search_by_confidence", min_confidence |-> min_confidence,
                    max_confidence |-> max_confidence]
        /\ result' \in search_by_confidence(xrefFileExists, xrefRows,
                                            min_confidence, max_confidence)
        /\ UNCHANGED <<claimsVars, txFileExists, txRows, xrefFileExists, xrefRows>>

CallGetSourceAnalysis ==
    /\ Idle
    /\ call' = [op |-> "get_source_analysis"]
    /\ result' \in get_source_analysis(xrefFileExists, xrefRows)
    /\ UNCHANGED <<claimsVars, txFileExists, txRows, xrefFileExists, xrefRows>>

---------------------------------------------------------------------------
(* wallet_outward_hops and wallet_inward_flows followed through their while *)
(* loop: the call enters the loop, every step is one iteration, and the     *)
(* call returns when the queue is empty.  While the loop runs, result holds *)
(* the local variables of the call.                                         *)

StartTrace ==
    \E wallet \in Wallets, max_depth \in TraceDepths, outward \in BOOLEAN :
        LET g == _build_transaction_graph(txFileExists, txRows)
        IN  /\ Idle
            /\ call' = [op |-> IF outward THEN "wallet_outward_hops"
                                          ELSE "wallet_inward_flows",
                        wallet |-> wallet, max_depth |-> max_depth]
            /\ result' = try_except(
                             BuildRaises(txFileExists, txRows),
                             IF NotInGraph(g, wallet)
                             THEN [kind |-> "wallet_not_found", wallet |-> wallet]
                             ELSE [kind |-> "traversing", s |-> BfsStart(wallet)],
                             IF outward THEN "Error finding outward hops"
                                        ELSE "Error finding inward flows")
            /\ UNCHANGED <<claimsVars, txFileExists, txRows, xrefFileExists, xrefRows>>

TraceStep ==
    /\ Traversing
    /\ result.s.queue # <<>>
    /\ result' = [result EXCEPT !.s =
                      LoopIteration(_build_transaction_graph(txFileExists, txRows), @,
                                    call.max_depth, call.op = "wallet_outward_hops")]
    /\ UNCHANGED <<claimsVars, txFileExists, txRows, xrefFileExists, xrefRows, call>>

TraceFinish ==
    /\ Traversing
    /\ result.s.queue = <<>>
    /\ result' = IF call.op = "wallet_outward_hops"
                 THEN OutwardResult(result.s, call.wallet, call.max_depth)
                 ELSE InwardResult(result.s, call.wallet, call.max_depth)
    /\ UNCHANGED <<claimsVars, txFileExists, txRows, xrefFileExists, xrefRows, call>>

---------------------------------------------------------------------------

Init ==
    /\ txFileExists = FALSE
    /\ txRows = <<>>
    /\ xrefFileExists = FALSE
    /\ xrefRows = <<>>
    /\ call = NoCall
    /\ result = NoResult
    /\ claimsFileExists = FALSE
    /\ claimsRows = <<>>
    /\ claimsAudit = <<>>
    /\ updates = [p \in Procs |-> NoUpdate]

GraphCalls ==
    \/ CallShortestPath
    \/ CallOutwardHops
    \/ CallInwardFlows
    \/ CallTransactionSummary
    \/ ReturnToCaller

\* the graph tools over a ledger of well-formed rows
Next ==
    \/ CreateTxFile
    \/ AppendTxRow
    \/ GraphCalls

Spec == Init /\ [][Next]_vars

\* the graph tools over a ledger of rows of any content
NextRaw ==
    \/ CreateTxFile
    \/ AppendRawTxRow
    \/ GraphCalls

SpecRaw == Init /\ [][NextRaw]_vars

\* the entity resolution tools over the cross-reference file
NextXref ==
    \/ CreateXrefFile
    \/ AppendXrefRow
    \/ CallResolveWallet
    \/ CallValidateWalletMapping
    \/ ReturnToCaller

SpecXref == Init /\ [][NextXref]_vars

\* path and summary queries over a ledger whose assets, amounts and fees vary
NextPay ==
    \/ CreateTxFile
    \/ AppendPaidTxRow
    \/ CallShortestPath
    \/ CallTransactionSummary
    \/ ReturnToCaller

SpecPay == Init /\ [][NextPay]_vars

\* resolve_wallet over rows whose confidence sits around the tier thresholds
NextTier ==
    \/ CreateXrefFile
    \/ AppendTierRow
    \/ CallResolveWallet
    \/ ReturnToCaller

SpecTier == Init /\ [][NextTier]_vars

\* search_by_confidence over rows around the bucket limits
NextSearch ==
    \/ CreateXrefFile
    \/ AppendSearchRow
    \/ CallSearchByConfidence
    \/ ReturnToCaller

SpecSearch == Init /\ [][NextSearch]_vars

\* get_source_analysis over rows of three sources
NextSource ==
    \/ CreateXrefFile
    \/ AppendSourceRow
    \/ CallGetSourceAnalysis
    \/ ReturnToCaller

SpecSource == Init /\ [][NextSource]_vars

\* the six queries over files whose header may lack a column
NextFail ==
    \/ CreateTxFile
    \/ AppendFailTxRow
    \/ CreateXrefFile
    \/ AppendFailXrefRow
    \/ GraphCalls
    \/ CallResolveWallet
    \/ CallValidateWalletMapping

SpecFail == Init /\ [][NextFail]_vars

\* path queries over a ledger of four wallets
NextTie ==
    \/ CreateTxFile
    \/ AppendTieTxRow
    \/ CallTieShortestPath
    \/ ReturnToCaller

SpecTie == Init /\ [][NextTie]_vars

\* the two traversals, one loop iteration per step
NextTrace ==
    \/ CreateTxFile
    \/ AppendTraceTxRow
    \/ StartTrace
    \/ TraceStep
    \/ TraceFinish
    \/ ReturnToCaller

SpecTrace == Init /\ [][NextTrace]_vars

\* the loop is plain sequential code: a traversal that can take its next iteration,
\* or return, does so
SpecTraceFair ==
    Init /\ [][NextTrace]_vars /\ WF_vars(TraceStep) /\ WF_vars(TraceFinish)

\* update_claim_status called by one caller, one call after the other
NextClaims ==
    \/ CreateClaimsFile
    \/ UpdateBegin(1)
    \/ UpdateRead(1)
    \/ UpdateModify(1)
    \/ UpdateWrite(1)
    \/ UpdateLog(1)
    \/ UpdateReturn(1)

SpecClaims == Init /\ [][NextClaims]_vars

\* update_claim_status called by two callers at once
NextClaimsConcurrent ==
    \/ CreateClaimsFile
    \/ \E p \in Procs : UpdateBegin(p)
    \/ \E p \in Procs : UpdateRead(p)
    \/ \E p \in Procs : UpdateModify(p)
    \/ \E p \in Procs : UpdateWrite(p)
    \/ \E p \in Procs : UpdateLog(p)
    \/ \E p \in Procs : UpdateReturn(p)

SpecClaimsConcurrent == Init /\ [][NextClaimsConcurrent]_vars

---------------------------------------------------------------------------
(* What the ledger itself says, independently of the graph the tools build *)

Graph == _build_transaction_graph(txFileExists, txRows)

\* w is the source or the destination of some row
Present(w) == \E i \in 1..Len(txRows) : txRows[i].from = w \/ txRows[i].to = w

IsTransfer(u, v) == \E i \in 1..Len(txRows) : txRows[i].from = u /\ txRows[i].to = v

\* the wallets at most k hops from s, s itself included
RECURSIVE Within(_, _)
Within(s, k) ==
    IF k <= 0 THEN {s}
    ELSE LET near == Within(s, k - 1)
         IN  near \cup {v \in Wallets : \E u \in near : IsTransfer(u, v)}

\* the wallets from which s is at most k hops away, s itself included
RECURSIVE WithinBack(_, _)
WithinBack(s, k) ==
    IF k <= 0 THEN {s}
    ELSE LET near == WithinBack(s, k - 1)
         IN  near \cup {u \in Wallets : \E v \in near : IsTransfer(u, v)}

\* the minimum number of hops from s back to t, or -1 when s is not reachable from t
HopDistanceBack(s, t) ==
    LET n == Cardinality(Wallets)
    IN  IF t \notin WithinBack(s, n) THEN -1
        ELSE CHOOSE k \in 0..n :
                 t \in WithinBack(s, k) /\ \A j \in 0..(k - 1) : t \notin WithinBack(s, j)

\* the traversed edges of a traversal result, of all depths
TraversedEdges(r) ==
    UNION {Range(r.edges_by_depth[d]) : d \in DOMAIN r.edges_by_depth}

\* the ledger with the two ends of every row exchanged, and an edge turned round
ReversedRows ==
    [i \in 1..Len(txRows) |->
        [txRows[i] EXCEPT !.from = txRows[i].to, !.to = txRows[i].from]]

TurnedRound(e) == [e EXCEPT !.from = e.to, !.to = e.from]

\* a ledger that loads and in which the wallet w does not occur
LedgerWithout(w) ==
    LET x == CHOOSE x \in Wallets : x # w
    IN  <<TxRow(x, x, <<"BTC", 5, 1>>, "2022-11-08T10:00:00Z", 1)>>

\* the status the claims file holds for a claim id
StatusInFile(claim_id) == FirstStatus(claimsRows, claim_id)

\* no two positions of the sequence hold the same value
NoRepeats(seq) == \A i, j \in 1..Len(seq) : i # j => seq[i] # seq[j]

\* A forward breadth-first search over the rows: the wallet at the head of the queue
\* is expanded by going through its outgoing rows in record order, from row i on
RECURSIVE ExpandInRecordOrder(_, _, _)
ExpandInRecordOrder(st, v, i) ==
    IF i > Len(txRows) THEN st
    ELSE LET row == txRows[i]
         IN  IF row.from = v /\ row.to \notin DOMAIN st.parent
             THEN ExpandInRecordOrder([parent |-> (row.to :> v) @@ st.parent,
                                       queue  |-> Append(st.queue, row.to)], v, i + 1)
             ELSE ExpandInRecordOrder(st, v, i + 1)

RECURSIVE ForwardBfs(_)
ForwardBfs(st) ==
    IF st.queue = <<>> THEN st.parent
    ELSE ForwardBfs(ExpandInRecordOrder([st EXCEPT !.queue = Tail(@)], Head(st.queue), 1))

RECURSIVE PathFromRoot(_, _)
PathFromRoot(parent, w) ==
    IF parent[w] = w THEN <<w>> ELSE Append(PathFromRoot(parent, parent[w]), w)

\* the path to target that the forward search from source finds first, <<>> if none
FirstFoundPath(source, target) ==
    LET parent == ForwardBfs([parent |-> (source :> source), queue |-> <<source>>])
    IN  IF target \in DOMAIN parent THEN PathFromRoot(parent, target) ELSE <<>>

\* the minimum number of hops from s to t, or -1 when t is not reachable from s
HopDistance(s, t) ==
    LET n == Cardinality(Wallets)
    IN  IF t \notin Within(s, n) THEN -1
        ELSE CHOOSE k \in 0..n : t \in Within(s, k) /\ \A j \in 0..(k - 1) : t \notin Within(s, j)

InvalidRow(row) ==
    \/ row.amount < 0
    \/ row.fee < 0
    \/ row.timestamp \notin ParsableTimestamps

\* the fees of the rows whose tx_hash the first n hops carry, added up
RECURSIVE FeesOfRows(_, _)
FeesOfRows(details, n) ==
    IF n = 0 THEN 0 ELSE FeesOfRows(details, n - 1) + txRows[details[n].tx_hash].fee

\* the rows that leave w, and the rows that arrive at w
RowsFrom(w) == {i \in 1..Len(txRows) : txRows[i].from = w}

RowsTo(w) == {i \in 1..Len(txRows) : txRows[i].to = w}

Assets == {p[1] : p \in PayPayloads}

\* the amounts of the rows in `rows` that carry `asset`, added up
RECURSIVE AmountOfRows(_, _)
AmountOfRows(rows, asset) ==
    IF rows = {} THEN 0
    ELSE LET i == CHOOSE k \in rows : TRUE
         IN  (IF txRows[i].asset = asset THEN txRows[i].amount ELSE 0)
                 + AmountOfRows(rows \ {i}, asset)

\* totals.get(asset, 0) of a totals-by-asset dict of a summary
TotalOf(totals, asset) == IF asset \in DOMAIN totals THEN totals[asset] ELSE 0

\* the tiers and the interval of confidences each one covers
Tiers == {"very_high", "high", "medium", "low", "very_low"}

InTier(t, c) ==
    CASE t = "very_high" -> c >= 90
      [] t = "high"      -> 80 <= c /\ c < 90
      [] t = "medium"    -> 60 <= c /\ c < 80
      [] t = "low"       -> 40 <= c /\ c < 60
      [] t = "very_low"  -> c < 40

\* names compared without regard to case, by folding to upper case
UpperChar(ch) ==
    CASE ch = "a" -> "A"
      [] ch = "x" -> "X"
      [] OTHER    -> ch

SameIgnoringCase(a, b) ==
    /\ Len(a) = Len(b)
    /\ \A k \in 1..Len(a) : UpperChar(a[k]) = UpperChar(b[k])

OccursIgnoringCase(t, s) ==
    \E off \in 0..(Len(s) - Len(t)) :
        \A k \in 1..Len(t) : UpperChar(s[off + k]) = UpperChar(t[k])

\* how many positions of the sequence `rows` hold the row r
Occurrences(rows, r) == Cardinality({i \in 1..Len(rows) : rows[i] = r})

\* the wallets a wallet_outward_hops result reports as reached
ReachedSet(r) == Range(r.all_reachable_wallets) \ {r.start_wallet}

GroupedSet(r) == UNION {r.wallets_by_depth[d] : d \in DOMAIN r.wallets_by_depth}

---------------------------------------------------------------------------
(* Claims *)

\* C1: building the graph from N rows keeps every row as an edge of its own:
\* the outgoing adjacency lists hold N edges in total, also when rows share (from, to).
C1_EveryRecordIsAnEdge ==
    txFileExists =>
        Cardinality({<<u, j>> \in Wallets \X (1..MaxRecords) : j <= Len(Graph.succ[u])})
            = Len(txRows)

\* C2: for present wallets with target reachable from source, wallet_shortest_path
\* returns hops that start at source, end at target, follow transfers of the ledger
\* hop to hop, and are as few as any route from source to target.
C2_ShortestPathIsValidAndMinimal ==
    (/\ call.op = "wallet_shortest_path"
     /\ Present(call.source)
     /\ Present(call.target)
     /\ HopDistance(call.source, call.target) >= 0)
    => /\ result.kind = "path"
       /\ result.path_nodes[1] = call.source
       /\ result.path_nodes[Len(result.path_nodes)] = call.target
       /\ result.total_hops = HopDistance(call.source, call.target)
       /\ Len(result.path_details) = result.total_hops
       /\ Len(result.path_nodes) = result.total_hops + 1
       /\ \A i \in 1..Len(result.path_details) :
             /\ result.path_details[i].from = result.path_nodes[i]
             /\ result.path_details[i].to = result.path_nodes[i + 1]
             /\ IsTransfer(result.path_details[i].from, result.path_details[i].to)

C2_Witness ==
    /\ call.op = "wallet_shortest_path"
    /\ result.kind = "path"
    /\ result.total_hops = 2
    /\ Len(txRows) = 3

\* C3: wallets_by_depth lists a wallet only under its minimum hop distance from
\* the start wallet, so a wallet reachable at several depths is in one group only.
C3_WalletsGroupedByMinimumDepth ==
    (call.op = "wallet_outward_hops" /\ result.kind = "outward")
    => \A d \in DOMAIN result.wallets_by_depth :
          \A w \in result.wallets_by_depth[d] :
              w # call.wallet => d = HopDistance(call.wallet, w)

\* C4: resolve_wallet returns a row of the wallet with the greatest confidence,
\* and among the rows with that confidence the first one in file order.
C4_ResolvePicksFirstGreatestConfidence ==
    (call.op = "resolve_wallet" /\ xrefFileExists /\ MatchRows(xrefRows, call.wallet) # <<>>)
    => /\ result.kind = "resolved"
       /\ \E i \in 1..Len(xrefRows) :
             /\ xrefRows[i].wallet = call.wallet
             /\ \A k \in 1..Len(xrefRows) :
                   xrefRows[k].wallet = call.wallet =>
                       /\ xrefRows[k].confidence <= xrefRows[i].confidence
                       /\ k < i => xrefRows[k].confidence < xrefRows[i].confidence
             /\ result.entity = xrefRows[i].entity
             /\ result.entity_type = xrefRows[i].type
             /\ result.confidence_score = xrefRows[i].confidence
             /\ result.source = xrefRows[i].source

C4_Witness ==
    /\ call.op = "resolve_wallet"
    /\ result.kind = "resolved"
    /\ Len(xrefRows) = 3
    /\ \A i \in 1..3 : xrefRows[i].wallet = call.wallet
    /\ xrefRows[1].confidence < xrefRows[2].confidence
    /\ xrefRows[2].confidence = xrefRows[3].confidence
    /\ xrefRows[2].entity # xrefRows[3].entity
    /\ result.entity = xrefRows[2].entity

\* C5: validate_wallet_mapping compares against and reports the entity, confidence
\* and source that resolve_wallet returns for the same wallet.
C5_ValidateReportsResolvedRow ==
    (/\ call.op = "validate_wallet_mapping"
     /\ result.kind = "validated"
     /\ result.validation_status # "NO_MAPPING")
    => LET r == resolve_wallet(xrefFileExists, xrefRows, call.wallet)
       IN  /\ result.actual_entity = r.entity
           /\ result.confidence = r.confidence_score
           /\ result.source = r.source

\* C6: when a row has a negative amount, a negative fee or an unparsable timestamp,
\* graph construction fails with InvalidRecord and no query is answered from the data.
C6_InvalidRecordAbortsConstruction ==
    (~Idle /\ \E i \in 1..Len(txRows) : InvalidRow(txRows[i]))
    => result.kind = "invalid_record"

\* C7: wallet_shortest_path answers "not found" exactly when source or target is in
\* no row, and the different answer "no path" exactly when both are in some row and
\* target is not reachable from source.
C7_NotFoundAndNoPathAreDistinct ==
    call.op = "wallet_shortest_path"
    => /\ result.kind \in {"source_not_found", "target_not_found"}
            <=> (~Present(call.source) \/ ~Present(call.target))
       /\ result.kind = "no_path"
            <=> (/\ Present(call.source)
                 /\ Present(call.target)
                 /\ HopDistance(call.source, call.target) = -1)

C7_Witness ==
    /\ call.op = "wallet_shortest_path"
    /\ result.kind = "no_path"
    /\ \E w \in Wallets : ~Present(w)

\* C8: for a wallet in no row, wallet_outward_hops, wallet_inward_flows and
\* wallet_transaction_summary return the "not found" answer, at every max_depth,
\* and nothing else with it.
C8_AbsentWalletIsNotFound ==
    (/\ call.op \in {"wallet_outward_hops", "wallet_inward_flows",
                     "wallet_transaction_summary"}
     /\ ~Present(call.wallet))
    => result = [kind |-> "wallet_not_found", wallet |-> call.wallet]

C8_Witness ==
    /\ call.op = "wallet_inward_flows"
    /\ call.max_depth = MaxDepth
    /\ ~Present(call.wallet)
    /\ Len(txRows) = 2
    /\ result.kind = "wallet_not_found"

\* C9: for a wallet in some row, wallet_outward_hops with max_depth 0 returns no
\* edge and no reached wallet: only the start wallet itself, at depth 0.
C9_DepthZeroReachesNothing ==
    (call.op = "wallet_outward_hops" /\ call.max_depth = 0 /\ Present(call.wallet))
    => /\ result.kind = "outward"
       /\ result.total_edges = 0
       /\ DOMAIN result.edges_by_depth = {}
       /\ DOMAIN result.wallets_by_depth = {}
       /\ result.total_wallets_reached = 0
       /\ result.all_reachable_wallets = <<call.wallet>>

C9_Witness ==
    /\ call.op = "wallet_outward_hops"
    /\ call.max_depth = 0
    /\ result.kind = "outward"
    /\ Len(Graph.succ[call.wallet]) = 2

\* C10: the wallets reached by wallet_outward_hops(w, k) are among those reached by
\* wallet_outward_hops(w, k + 1), for every present wallet w and every k >= 0.
C10_ReachedSetGrowsWithDepth ==
    (call.op = "wallet_outward_hops" /\ result.kind = "outward")
    => LET deeper == wallet_outward_hops(Graph, call.wallet, call.max_depth + 1)
       IN  /\ ReachedSet(result) \subseteq ReachedSet(deeper)
           /\ GroupedSet(result) \subseteq GroupedSet(deeper)
           /\ result.total_wallets_reached <= deeper.total_wallets_reached

C10_Witness ==
    /\ call.op = "wallet_outward_hops"
    /\ result.kind = "outward"
    /\ call.max_depth = 1
    /\ ReachedSet(result) # {}
    /\ ReachedSet(result) #
           ReachedSet(wallet_outward_hops(Graph, call.wallet, call.max_depth + 1))

\* C11: for a wallet a in some row, wallet_shortest_path(a, a) returns a path of
\* zero hops: no edge and total fee 0, also when a has a self-transfer or is on a cycle.
C11_PathToSelfHasZeroHops ==
    (call.op = "wallet_shortest_path" /\ call.source = call.target /\ Present(call.source))
    => /\ result.kind = "path"
       /\ result.path_nodes = <<call.source>>
       /\ result.path_details = <<>>
       /\ result.total_hops = 0
       /\ result.total_fees = 0

C11_Witness ==
    /\ call.op = "wallet_shortest_path"
    /\ call.source = call.target
    /\ IsTransfer(call.source, call.source)
    /\ \E w \in Wallets \ {call.source} : IsTransfer(call.source, w) /\ IsTransfer(w, call.source)
    /\ result.kind = "path"
    /\ result.total_hops = 0

\* C12: for a path returned by wallet_shortest_path, every hop is a row of the
\* ledger, total_fees is the sum of the fees of these rows, and final_amount is the
\* amount of the last hop's row alone.
C12_FeesAddUpAmountIsLastHop ==
    (call.op = "wallet_shortest_path" /\ result.kind = "path")
    => LET details == result.path_details
           n       == Len(details)
       IN  /\ \A i \in 1..n :
                 /\ details[i].tx_hash \in 1..Len(txRows)
                 /\ txRows[details[i].tx_hash].from = details[i].from
                 /\ txRows[details[i].tx_hash].to = details[i].to
                 /\ txRows[details[i].tx_hash].fee = details[i].fee
                 /\ txRows[details[i].tx_hash].amount = details[i].amount
           /\ result.total_fees = FeesOfRows(details, n)
           /\ n > 0 => result.final_amount = txRows[details[n].tx_hash].amount

C12_Witness ==
    /\ call.op = "wallet_shortest_path"
    /\ result.kind = "path"
    /\ result.total_hops = 2
    /\ result.path_details[1].fee # result.path_details[2].fee
    /\ result.path_details[1].amount # result.path_details[2].amount
    /\ result.total_fees = 3
    /\ Len(txRows) = 3
    /\ txRows[1].from = txRows[2].from /\ txRows[1].to = txRows[2].to

\* C13: for a wallet in some row, the summary's outbound transaction count is the
\* number of rows that leave the wallet and its inbound count the number of rows that
\* arrive at it, each row counted, also when several rows share the counterparty.
C13_TransactionCountsCountRows ==
    (call.op = "wallet_transaction_summary" /\ result.kind = "summary")
    => /\ result.total_outbound_transactions = Cardinality(RowsFrom(call.wallet))
       /\ result.total_inbound_transactions = Cardinality(RowsTo(call.wallet))

\* C14: for a wallet in some row and every asset, the summary's outbound total is the
\* sum of the amounts of all rows of that asset that leave the wallet, and its inbound
\* total the sum over all rows of that asset that arrive at it.
C14_TotalsByAssetSumRows ==
    (call.op = "wallet_transaction_summary" /\ result.kind = "summary")
    => \A asset \in Assets :
          /\ TotalOf(result.outbound_totals_by_asset, asset)
                 = AmountOfRows(RowsFrom(call.wallet), asset)
          /\ TotalOf(result.inbound_totals_by_asset, asset)
                 = AmountOfRows(RowsTo(call.wallet), asset)

\* C15: for a wallet in some row, the summary reports on each side the number of
\* distinct counterparties of the wallet's rows: never more than that side's
\* transaction count, and 1 when every row of the side has the same counterparty.
C15_UniqueCounterparties ==
    (call.op = "wallet_transaction_summary" /\ result.kind = "summary")
    => LET outTo  == {txRows[i].to : i \in RowsFrom(call.wallet)}
           inFrom == {txRows[i].from : i \in RowsTo(call.wallet)}
       IN  /\ result.unique_outbound_wallets = Cardinality(outTo)
           /\ result.unique_inbound_wallets = Cardinality(inFrom)
           /\ result.unique_outbound_wallets <= result.total_outbound_transactions
           /\ result.unique_inbound_wallets <= result.total_inbound_transactions
           /\ (\E v \in Wallets : outTo = {v}) => result.unique_outbound_wallets = 1
           /\ (\E u \in Wallets : inFrom = {u}) => result.unique_inbound_wallets = 1

C15_Witness ==
    /\ call.op = "wallet_transaction_summary"
    /\ result.kind = "summary"
    /\ Cardinality(RowsFrom(call.wallet)) = 3
    /\ result.unique_outbound_wallets = 1
    /\ result.unique_inbound_wallets = 0

\* C16: every confidence lies in exactly one tier interval (>= 0.9 very_high,
\* [0.8, 0.9) high, [0.6, 0.8) medium, [0.4, 0.6) low, < 0.4 very_low), and a
\* resolution reports the tier of the interval its own confidence lies in.
C16_TierOfReturnedConfidence ==
    /\ \A c \in TierConfidences : Cardinality({t \in Tiers : InTier(t, c)}) = 1
    /\ (call.op = "resolve_wallet" /\ result.kind = "resolved")
       => /\ \E i \in 1..Len(xrefRows) :
                /\ xrefRows[i].wallet = call.wallet
                /\ xrefRows[i].confidence = result.confidence_score
          /\ {t \in Tiers : InTier(t, result.confidence_score)}
                 = {result.resolution_quality}

C16_Witness ==
    /\ call.op = "resolve_wallet"
    /\ result.kind = "resolved"
    /\ result.confidence_score = 80
    /\ result.resolution_quality = "high"
    /\ Len(xrefRows) = 2

\* C17: given the cross-reference file, validate returns exactly one of the four
\* statuses: no_mapping with confidence 0 when the wallet has no row; otherwise,
\* comparing the reported actual name with the expected name without regard to case,
\* exact_match when they are equal, partial_match when they are unequal and one occurs
\* in the other, and mismatch when neither holds.
C17_ValidateStatus ==
    (call.op = "validate_wallet_mapping" /\ xrefFileExists)
    => /\ result.kind = "validated"
       /\ result.validation_status
              \in {"NO_MAPPING", "EXACT_MATCH", "PARTIAL_MATCH", "MISMATCH"}
       /\ IF \A i \in 1..Len(xrefRows) : xrefRows[i].wallet # call.wallet
          THEN result.validation_status = "NO_MAPPING" /\ result.confidence = 0
          ELSE LET actual   == result.actual_entity
                   expected == call.expected_entity
                   equal    == SameIgnoringCase(actual, expected)
                   within   == \/ OccursIgnoringCase(actual, expected)
                               \/ OccursIgnoringCase(expected, actual)
               IN  /\ result.validation_status = "EXACT_MATCH" <=> equal
                   /\ result.validation_status = "PARTIAL_MATCH" <=> (~equal /\ within)
                   /\ result.validation_status = "MISMATCH" <=> (~equal /\ ~within)

C17_Witness ==
    /\ call.op = "validate_wallet_mapping"
    /\ result.kind = "validated"
    /\ result.validation_status = "PARTIAL_MATCH"
    /\ Len(call.expected_entity) > Len(result.actual_entity)

\* C18: given the cross-reference file, search_by_confidence(min, max) returns the
\* rows with min <= confidence <= max, each as often as the file holds it, in order of
\* non-increasing confidence; its high (>= 0.8), medium ([0.5, 0.8)) and low (< 0.5)
\* counts are the numbers of returned rows in those intervals and add up to the number
\* of rows returned.  With no row in the range it returns no rows.
C18_SearchReturnsRangeSorted ==
    (call.op = "search_by_confidence" /\ xrefFileExists)
    => LET lo      == call.min_confidence
           hi      == call.max_confidence
           inRange == {i \in 1..Len(xrefRows) :
                          lo <= xrefRows[i].confidence /\ xrefRows[i].confidence <= hi}
       IN  IF inRange = {}
           THEN result.kind = "no_mappings_in_range"
           ELSE LET m    == result.mappings
                    dist == result.confidence_distribution
                    N(least, limit) ==
                        Cardinality({i \in 1..Len(m) :
                                        least <= m[i].confidence /\ m[i].confidence < limit})
                IN  /\ result.kind = "mappings"
                    /\ Len(m) = Cardinality(inRange)
                    /\ \A i \in inRange :
                          Occurrences(m, xrefRows[i])
                              = Cardinality({k \in inRange : xrefRows[k] = xrefRows[i]})
                    /\ \A i \in 1..(Len(m) - 1) : m[i].confidence >= m[i + 1].confidence
                    /\ dist.high_confidence = N(80, 1000)
                    /\ dist.medium_confidence = N(50, 80)
                    /\ dist.low_confidence = N(-1000, 50)
                    /\ dist.high_confidence + dist.medium_confidence
                           + dist.low_confidence = Len(m)
                    /\ result.total_mappings = Len(m)

C18_Witness ==
    /\ call.op = "search_by_confidence"
    /\ result.kind = "mappings"
    /\ Len(xrefRows) = 3
    /\ Len(result.mappings) = 2
    /\ result.mappings[1].confidence = call.max_confidence
    /\ result.mappings[2].confidence = call.min_confidence
    /\ call.min_confidence < call.max_confidence

\* C19: the source analysis flags a source of the highest mean confidence, and
\* every source whose mean confidence is more than 0.3 below the highest mean or
\* below 0.6.  The advice that counts the sources below 0.6 is taken as a flag for
\* each source below 0.6.
C19_EveryWeakSourceIsFlagged ==
    (call.op = "get_source_analysis" /\ result.kind = "source_analysis")
    => LET stats == result.confidence_by_source
           recs  == result.recommendations
           top   == CHOOSE t \in {stats[i].mean : i \in 1..Len(stats)} :
                        \A i \in 1..Len(stats) : stats[i].mean <= t
           Flagged(st) ==
               \/ \E k \in 1..Len(recs) :
                     /\ recs[k].flag \in {"most_reliable", "consider_reviewing"}
                     /\ recs[k].source = st.source
               \/ /\ st.mean < 600
                  /\ \E k \in 1..Len(recs) : recs[k].flag = "low_average_confidence"
       IN  stats # <<>>
           => /\ \E i \in 1..Len(stats) : stats[i].mean = top /\ Flagged(stats[i])
              /\ \A i \in 1..Len(stats) :
                    (top - stats[i].mean > 300 \/ stats[i].mean < 600)
                    => Flagged(stats[i])

\* C20: each of the six queries ends with a value in the caller's hands, whatever
\* the files hold: a not-found, no-path or no-mapping outcome is a returned value, and
\* so is the error text when the query fails inside because the file lacks a column
\* it reads; no call ends with an exception passed on to the caller.
C20_EveryQueryReturnsAValue ==
    LET GraphFails == \E i \in 1..Len(txRows) : "fee" \notin DOMAIN txRows[i]
        XrefFails  == \E i \in 1..Len(xrefRows) :
                         xrefRows[i].wallet = call.wallet /\ "entity" \notin DOMAIN xrefRows[i]
        Returned(values, fails) ==
            /\ result.kind \in values \cup {"error"}
            /\ result.kind = "error" <=> fails
    IN  /\ result.kind # "exception_propagated"
        /\ call.op = "wallet_shortest_path"
           => Returned({"source_not_found", "target_not_found", "no_path", "path"},
                       GraphFails)
        /\ call.op = "wallet_outward_hops"
           => Returned({"wallet_not_found", "outward"}, GraphFails)
        /\ call.op = "wallet_inward_flows"
           => Returned({"wallet_not_found", "inward"}, GraphFails)
        /\ call.op = "wallet_transaction_summary"
           => Returned({"wallet_not_found", "summary"}, GraphFails)
        /\ call.op = "resolve_wallet"
           => Returned({"xref_file_not_found", "no_entity_mapping", "resolved"}, XrefFails)
        /\ call.op = "validate_wallet_mapping"
           => Returned({"xref_file_not_found", "validated"}, XrefFails)

C20_Witness ==
    /\ call.op = "wallet_outward_hops"
    /\ Len(txRows) = 1
    /\ "fee" \notin DOMAIN txRows[1]
    /\ result.kind = "error"
    /\ result.message = "Error finding outward hops"

\* C21: the start wallet is never counted as reached: wallet_outward_hops(w, k)
\* reports as many reached wallets as there are wallets other than w within 1..k hops
\* of w, and wallet_inward_flows(w, k) as many as there are wallets other than w from
\* which w is within 1..k hops, also when a cycle or a self-transfer leads back to w.
C21_StartWalletIsNotCounted ==
    /\ (call.op = "wallet_outward_hops" /\ result.kind = "outward")
       => /\ result.total_wallets_reached
                 = Cardinality(Within(call.wallet, call.max_depth) \ {call.wallet})
          /\ result.all_reachable_wallets[1] = call.wallet
          /\ Range(result.all_reachable_wallets) = Within(call.wallet, call.max_depth)
    /\ (call.op = "wallet_inward_flows" /\ result.kind = "inward")
       => /\ result.total_source_wallets
                 = Cardinality(WithinBack(call.wallet, call.max_depth) \ {call.wallet})
          /\ Range(result.all_source_wallets)
                 = WithinBack(call.wallet, call.max_depth) \ {call.wallet}

C21_Witness ==
    /\ call.op = "wallet_outward_hops"
    /\ result.kind = "outward"
    /\ call.max_depth = 2
    /\ IsTransfer(call.wallet, call.wallet)
    /\ \E v \in Wallets \ {call.wallet} :
          IsTransfer(call.wallet, v) /\ IsTransfer(v, call.wallet)
    /\ result.total_wallets_reached = 1

\* C22: when wallet_shortest_path returns a path, it is the path that a forward
\* breadth-first search from the source finds first when it expands each wallet's
\* outgoing rows in record order.
C22_FirstFoundShortestPathWins ==
    (call.op = "wallet_shortest_path" /\ result.kind = "path")
    => result.path_nodes = FirstFoundPath(call.source, call.target)

\* C23: at every point of a traversal, outward or inward, no wallet has been put on
\* the queue twice and none has been expanded twice; every wallet was put on the queue
\* with the depth of its first discovery, which is its minimum hop distance from the
\* start; and no pair (from, to) occurs twice among the traversed edges.
C23_EachWalletQueuedOnce ==
    Traversing
    => LET s == result.s
           outward == call.op = "wallet_outward_hops"
       IN  /\ NoRepeats([i \in 1..Len(s.enqueued) |-> s.enqueued[i].wallet])
           /\ NoRepeats(s.expanded)
           /\ \A i \in 1..Len(s.enqueued) :
                 s.enqueued[i].depth
                     = IF outward THEN HopDistance(call.wallet, s.enqueued[i].wallet)
                                  ELSE HopDistanceBack(call.wallet, s.enqueued[i].wallet)
           /\ NoRepeats([i \in 1..Len(s.edges) |-> <<s.edges[i].from, s.edges[i].to>>])

C23_Witness ==
    /\ Traversing
    /\ call.max_depth >= 2
    /\ result.s.queue = <<>>
    /\ Len(result.s.edges) = 2
    /\ result.s.edges[2].to = call.wallet
    /\ result.s.edges[2].from # call.wallet
    /\ Len(result.s.enqueued) = 2
    /\ Len(result.s.expanded) = 2

\* C25: every traversal, outward or inward, that has entered its loop comes to the
\* point where the queue is empty and returns its result, on every ledger (cycles and
\* self-transfers included) and for every max_depth (negative, zero or larger than any
\* hop distance of the graph).
C25_TraversalTerminates ==
    Traversing ~> (result.kind \in {"outward", "inward"})

C25_Witness ==
    /\ call.op = "wallet_inward_flows"
    /\ result.kind = "inward"
    /\ call.max_depth = MaxTraceDepth
    /\ \E v \in Wallets \ {call.wallet} :
          IsTransfer(call.wallet, v) /\ IsTransfer(v, call.wallet)
    /\ result.total_inbound_edges = 2

\* C24: in the result of wallet_outward_hops(w, max_depth) every traversed edge has a
\* depth between 1 and max_depth that is one more than the minimum hop distance from w
\* to the edge's source wallet, and the traversed edges are exactly the rows that leave
\* a wallet whose minimum hop distance from w is less than max_depth, one edge per row.
C24_EdgesTaggedWithDepth ==
    (call.op = "wallet_outward_hops" /\ result.kind = "outward")
    => LET edges == TraversedEdges(result)
           near  == {u \in Wallets : /\ HopDistance(call.wallet, u) >= 0
                                     /\ HopDistance(call.wallet, u) < call.max_depth}
           rows  == {i \in 1..Len(txRows) : txRows[i].from \in near}
       IN  /\ \A d \in DOMAIN result.edges_by_depth :
                 \A e \in Range(result.edges_by_depth[d]) : e.depth = d
           /\ \A e \in edges :
                 /\ 1 <= e.depth /\ e.depth <= call.max_depth
                 /\ e.depth = 1 + HopDistance(call.wallet, e.from)
           /\ {e.tx_hash : e \in edges} = rows
           /\ result.total_edges = Cardinality(rows)

\* C26: wallet_inward_flows(w, k) on a ledger gives what wallet_outward_hops(w, k)
\* gives on the ledger with every row turned round: the same edges (turned round) in
\* the same order under the same depths, and the same number of reached wallets.
C26_InwardMirrorsOutward ==
    (call.op = "wallet_inward_flows" /\ result.kind = "inward")
    => LET mirror == wallet_outward_hops(
                         _build_transaction_graph(txFileExists, ReversedRows),
                         call.wallet, call.max_depth)
       IN  /\ mirror.kind = "outward"
           /\ DOMAIN mirror.edges_by_depth = DOMAIN result.edges_by_depth
           /\ \A d \in DOMAIN result.edges_by_depth :
                 result.edges_by_depth[d]
                     = [i \in 1..Len(mirror.edges_by_depth[d]) |->
                           TurnedRound(mirror.edges_by_depth[d][i])]
           /\ result.total_inbound_edges = mirror.total_edges
           /\ result.total_source_wallets = mirror.total_wallets_reached
           /\ Range(result.all_source_wallets)
                  = Range(mirror.all_reachable_wallets) \ {call.wallet}

C26_Witness ==
    /\ call.op = "wallet_inward_flows"
    /\ result.kind = "inward"
    /\ DOMAIN result.edges_by_depth = {1, 2}
    /\ result.total_source_wallets = 2
    /\ wallet_outward_hops(Graph, call.wallet, call.max_depth).total_edges = 0

\* C27: for two different wallets a and b that both occur in the ledger,
\* wallet_shortest_path(a, b) returns a path of h hops exactly when
\* wallet_outward_hops(a, h) reaches b and wallet_outward_hops(a, h - 1) does not, and
\* it reports no path exactly when wallet_outward_hops(a, k) reaches b for no k.
C27_PathAgreesWithTraversal ==
    (/\ call.op = "wallet_shortest_path"
     /\ call.source # call.target
     /\ Present(call.source) /\ Present(call.target))
    => LET Reached(k) == ReachedSet(wallet_outward_hops(Graph, call.source, k))
           depths     == 1..(Cardinality(Wallets) + 1)
           FirstAt(h) == call.target \in Reached(h) /\ call.target \notin Reached(h - 1)
       IN  /\ result.kind \in {"path", "no_path"}
           /\ \A h \in depths :
                 (result.kind = "path" /\ result.total_hops = h) <=> FirstAt(h)
           /\ result.kind = "path" => result.total_hops \in depths
           /\ result.kind = "no_path" <=> \A k \in depths : call.target \notin Reached(k)

C27_Witness ==
    /\ call.op = "wallet_shortest_path"
    /\ result.kind = "path"
    /\ result.total_hops = 2
    /\ call.target \in ReachedSet(wallet_outward_hops(Graph, call.source, 2))
    /\ call.target \notin ReachedSet(wallet_outward_hops(Graph, call.source, 1))

\* C28: with the transaction file missing, each of wallet_shortest_path,
\* wallet_outward_hops, wallet_inward_flows and wallet_transaction_summary returns a
\* 'not found' result for the wallet asked about, and it is the very result the same
\* call returns on a ledger that loads and does not hold that wallet.
C28_MissingFileLooksLikeUnknownWallet ==
    ~txFileExists
    => LET loaded == _build_transaction_graph(TRUE, LedgerWithout(
                         IF call.op = "wallet_shortest_path" THEN call.source
                                                             ELSE call.wallet))
       IN  /\ call.op = "wallet_shortest_path"
              => /\ result = [kind |-> "source_not_found", wallet |-> call.source]
                 /\ result = wallet_shortest_path(loaded, call.source, call.target)
           /\ call.op = "wallet_outward_hops"
              => /\ result = [kind |-> "wallet_not_found", wallet |-> call.wallet]
                 /\ result = wallet_outward_hops(loaded, call.wallet, call.max_depth)
           /\ call.op = "wallet_inward_flows"
              => /\ result = [kind |-> "wallet_not_found", wallet |-> call.wallet]
                 /\ result = wallet_inward_flows(loaded, call.wallet, call.max_depth)
           /\ call.op = "wallet_transaction_summary"
              => /\ result = [kind |-> "wallet_not_found", wallet |-> call.wallet]
                 /\ result = wallet_transaction_summary(loaded, call.wallet)

C28_Witness ==
    /\ ~txFileExists
    /\ call.op = "wallet_transaction_summary"
    /\ result.kind = "wallet_not_found"

\* C29: when a call of update_claim_status has reported success, the audit trail
\* holds a row for it: the last row names the call's claim, with the status the claim
\* had in the file when the call was made as old_status and the requested status as
\* new_status.
C29_SuccessHasAuditRow ==
    \A p \in Procs :
        (updates[p].pc = "done" /\ updates[p].result.kind = "updated")
        => /\ claimsAudit # <<>>
           /\ claimsAudit[Len(claimsAudit)]
                  = [claim_id   |-> updates[p].claim_id,
                     action     |-> "status_update",
                     old_status |-> updates[p].status_before,
                     new_status |-> updates[p].new_status]

\* C30: when two callers have both been told that their update succeeded, for two
\* different claim ids, the claims file holds the new status of both claims.
C30_NoUpdateIsLost ==
    \A p, q \in Procs :
        (/\ p # q
         /\ updates[p].pc = "done" /\ updates[p].result.kind = "updated"
         /\ updates[q].pc = "done" /\ updates[q].result.kind = "updated"
         /\ updates[p].claim_id # updates[q].claim_id)
        => /\ StatusInFile(updates[p].claim_id) = updates[p].new_status
           /\ StatusInFile(updates[q].claim_id) = updates[q].new_status

=============================================================================
